---- MODULE Spec2Model ----
(***************************************************************************)
(* Model of visualize_hackernews.py: the CSV loader, the top-N-plus-other  *)
(* aggregator, the domain extractor, the engagement classifier and the     *)
(* four-pie renderer, driven either by main() or by a direct call of one   *)
(* of the module's functions.                                              *)
(*                                                                         *)
(* Text (titles, URLs, CSV cells, labels) is a sequence of string tokens.  *)
(* Numbers are integers: every value the model uses is a small integer,    *)
(* for which the conversion to float (astype(float)) is exact; a ratio is  *)
(* kept as the pair Comments / Votes and compared by cross-multiplication. *)
(* A cell of a numeric column is <<n>> for the number n and <<>> for a     *)
(* missing value (NaN, pd.NA).                                             *)
(***************************************************************************)
EXTENDS Integers, Sequences, FiniteSets, TLC

\* ------------------------------------------------------------------ bounds
MaxRows == 2      \* rows of a generated CSV file / table
MaxVal  == 2      \* largest generated Votes / Comments value
MaxTopN == 3      \* largest top_n of a direct aggregator call

\* ------------------------------------------------------- program constants
TitleWidth == 40  \* _short_titles(df["Title"], width=40)
StoryTopN  == 5   \* top_n of the vote-share and comment-share pies
DomainTopN == 6   \* top_n of the domain pie

OtherStories == <<"Other stories">>
OtherDomains == <<"Other domains">>
UnknownDomain == <<"Unknown">>
BucketLabels == << <<"Quiet (<0.5)">>, <<"Balanced (0.5-1.0)">>, <<"Buzzing (>1.0)">> >>
NaN == <<>>
Num(n) == <<n>>
IsNa(x) == x = NaN
Val(x) == x[1]

\* ------------------------------------------------------------ small helpers
Min(a, b) == IF a <= b THEN a ELSE b

RECURSIVE SumSeq(_)
SumSeq(s) == IF s = <<>> THEN 0 ELSE Head(s) + SumSeq(Tail(s))

\* The numbers of a column without missing values.
Column(df, col) == [i \in 1..Len(df) |-> Val(df[i][col])]

\* ------------------------------------------------------------------ titles
\* Display width of a token of text.
Placeholder == "(ellipsis)"   \* the one-character placeholder U+2026

TokLen(t) ==
    CASE t = "Lorem20"   -> 20
      [] t = Placeholder -> 1
      [] t = " "         -> 1
      [] OTHER           -> 1

\* ' '.join(words): the chunks textwrap works on (words and single blanks).
RECURSIVE Chunks(_)
Chunks(words) ==
    IF Len(words) <= 1 THEN words
    ELSE <<Head(words), " ">> \o Chunks(Tail(words))

RECURSIVE TextLen(_)
TextLen(chunks) == IF chunks = <<>> THEN 0 ELSE TokLen(Head(chunks)) + TextLen(Tail(chunks))

\* Longest prefix of the chunks that fits in width.
RECURSIVE FitPrefix(_, _)
FitPrefix(chunks, width) ==
    IF chunks = <<>> \/ TokLen(Head(chunks)) > width THEN <<>>
    ELSE <<Head(chunks)>> \o FitPrefix(Tail(chunks), width - TokLen(Head(chunks)))

\* Drop chunks from the end until the last one is a word and the placeholder fits.
RECURSIVE AddPlaceholder(_, _)
AddPlaceholder(line, width) ==
    IF line = <<>> THEN <<Placeholder>>
    ELSE IF line[Len(line)] # " " /\ TextLen(line) + TokLen(Placeholder) <= width
         THEN Append(line, Placeholder)
         ELSE AddPlaceholder(SubSeq(line, 1, Len(line) - 1), width)

\* textwrap.shorten(str(title), width, placeholder=U+2026) for words no longer than width.
Shorten(title, width) ==
    LET chunks == Chunks(title)
        line   == FitPrefix(chunks, width)
    IN  IF Len(line) = Len(chunks) THEN chunks ELSE AddPlaceholder(line, width)

ShortTitles(df, width) ==
    [i \in 1..Len(df) |-> [c \in DOMAIN df[i] \cup {"TitleShort"} |->
        IF c = "TitleShort" THEN Shorten(df[i]["Title"], width) ELSE df[i][c]]]

\* ------------------------------------------------------------- CSV loading
Digits == {"0", "1", "2", "3", "4", "5", "6", "7", "8", "9"}

DigitVal(d) ==
    CASE d = "0" -> 0 [] d = "1" -> 1 [] d = "2" -> 2 [] d = "3" -> 3 [] d = "4" -> 4
      [] d = "5" -> 5 [] d = "6" -> 6 [] d = "7" -> 7 [] d = "8" -> 8 [] OTHER -> 9

RECURSIVE ParseDigits(_, _)
ParseDigits(chars, acc) ==
    IF chars = <<>> THEN acc ELSE ParseDigits(Tail(chars), 10 * acc + DigitVal(Head(chars)))

AllDigits(chars) == chars # <<>> /\ \A i \in 1..Len(chars) : chars[i] \in Digits

\* read_csv followed by pd.to_numeric(errors="coerce") on one cell: an optionally
\* signed run of digits is that integer, anything else (empty cell, text) is NaN.
ToNumeric(cell) ==
    IF AllDigits(cell) THEN Num(ParseDigits(cell, 0))
    ELSE IF cell # <<>> /\ Head(cell) = "-" /\ AllDigits(Tail(cell))
         THEN Num(0 - ParseDigits(Tail(cell), 0))
         ELSE NaN

CoerceRow(r) ==
    [c \in DOMAIN r |-> IF c \in {"Votes", "Comments"} THEN ToNumeric(r[c]) ELSE r[c]]

RECURSIVE DropNa(_, _)
DropNa(df, subset) ==
    IF df = <<>> THEN <<>>
    ELSE IF \E c \in subset : IsNa(Head(df)[c])
         THEN DropNa(Tail(df), subset)
         ELSE <<Head(df)>> \o DropNa(Tail(df), subset)

\* Variant of LoadHackernews: rows are dropped on a missing Votes only.
LoadHackernewsVotesOnly(file) ==
    DropNa([i \in 1..Len(file) |-> CoerceRow(file[i])], {"Votes"})

\* load_hackernews: read the file, coerce Votes and Comments, drop rows missing either.
LoadHackernews(file) ==
    DropNa([i \in 1..Len(file) |-> CoerceRow(file[i])], {"Votes", "Comments"})

\* ---------------------------------------------------------------- aggregator
\* df.sort_values(value_col, ascending=False): the orders of the row indices S with
\* the largest value first.  The default sort kind (quicksort) is not stable, so rows
\* of equal value may come out in any order.
RECURSIVE SortedOrders(_, _, _)
SortedOrders(df, col, S) ==
    IF S = {} THEN {<<>>}
    ELSE LET top == {i \in S : \A j \in S : Val(df[i][col]) >= Val(df[j][col])}
         IN  UNION {{<<i>> \o t : t \in SortedOrders(df, col, S \ {i})} : i \in top}

SortValues(df, col) ==
    {[k \in 1..Len(df) |-> df[o[k]]] : o \in SortedOrders(df, col, 1..Len(df))}

\* Variant of HeadRows: the last n rows instead of the first n (DataFrame.tail).
TailRows(df, n) == SubSeq(df, Len(df) - Min(n, Len(df)) + 1, Len(df))

\* DataFrame.head(n) for n >= 0.
HeadRows(df, n) == SubSeq(df, 1, Min(n, Len(df)))

\* Variant of AggregateTopShare: the remainder is never appended.
AggregateTopShareDropOther(ordered, value_col, label_col, top_n, other_label) ==
    LET top == HeadRows(ordered, top_n)
    IN  [labels |-> [i \in 1..Len(top) |-> top[i][label_col]], sizes |-> Column(top, value_col)]

\* Variant of AggregateTopShare: the remainder is appended when it is >= 0.
AggregateTopShareKeepZero(ordered, value_col, label_col, top_n, other_label) ==
    LET top       == HeadRows(ordered, top_n)
        remainder == SumSeq(Column(ordered, value_col)) - SumSeq(Column(top, value_col))
        labels    == [i \in 1..Len(top) |-> top[i][label_col]]
        sizes     == Column(top, value_col)
    IN  IF remainder >= 0
        THEN [labels |-> Append(labels, other_label), sizes |-> Append(sizes, remainder)]
        ELSE [labels |-> labels, sizes |-> sizes]

\* _aggregate_top_share after the sort: ordered is the sorted table.
AggregateTopShare(ordered, value_col, label_col, top_n, other_label) ==
    LET top       == HeadRows(ordered, top_n)
        remainder == SumSeq(Column(ordered, value_col)) - SumSeq(Column(top, value_col))
        labels    == [i \in 1..Len(top) |-> top[i][label_col]]
        sizes     == Column(top, value_col)
    IN  IF remainder > 0
        THEN [labels |-> Append(labels, other_label), sizes |-> Append(sizes, remainder)]
        ELSE [labels |-> labels, sizes |-> sizes]

\* One call of _aggregate_top_share: its arguments and what it returned.
AggCall(table, value_col, label_col, top_n, other_label, ordered) ==
    LET out == AggregateTopShare(ordered, value_col, label_col, top_n, other_label)
    IN  [df |-> table, value_col |-> value_col, label_col |-> label_col, top_n |-> top_n,
         other_label |-> other_label, labels |-> out.labels, sizes |-> out.sizes]

\* ------------------------------------------------------------------ domains
Schemes == {"http:", "https:"}
PathStart == {"/p", "?q", "#f"}

RECURSIVE TakeNetloc(_)
TakeNetloc(rest) ==
    IF rest = <<>> \/ Head(rest) \in PathStart THEN <<>>
    ELSE <<Head(rest)>> \o TakeNetloc(Tail(rest))

\* urlparse(str(url)).netloc: what follows "//" (after the scheme, if any) up to the
\* first "/", "?" or "#"; empty when the URL has no "//" there.
Netloc(url) ==
    LET rest == IF url # <<>> /\ Head(url) \in Schemes THEN Tail(url) ELSE url
    IN  IF rest # <<>> /\ Head(rest) = "//" THEN TakeNetloc(Tail(rest)) ELSE <<>>

DomainOf(url) == IF Netloc(url) = <<>> THEN UnknownDomain ELSE Netloc(url)

WithDomain(df) ==
    [i \in 1..Len(df) |-> [c \in DOMAIN df[i] \cup {"Domain"} |->
        IF c = "Domain" THEN DomainOf(df[i]["URL"]) ELSE df[i][c]]]

\* Lexicographic rank of the domain labels of the model (groupby sorts its keys).
HostRank(t) ==
    CASE t = "Unknown" -> 0 [] t = "a.com" -> 1 [] t = "b.com" -> 2 [] t = "c.com" -> 3
      [] t = "d.com" -> 4 [] t = "e.com" -> 5 [] t = "f.com" -> 6 [] t = "g.com" -> 7
      [] t = "x.com" -> 8 [] OTHER -> 9

RECURSIVE SortKeys(_)
SortKeys(keys) ==
    IF keys = {} THEN <<>>
    ELSE LET k == CHOOSE x \in keys : \A y \in keys : HostRank(x[1]) <= HostRank(y[1])
         IN  <<k>> \o SortKeys(keys \ {k})

RECURSIVE SumWhere(_, _, _)
SumWhere(df, key, col) ==
    IF df = <<>> THEN 0
    ELSE (IF Head(df)["Domain"] = key THEN Val(Head(df)[col]) ELSE 0) + SumWhere(Tail(df), key, col)

\* Variant of GroupByDomain: one row per story, nothing summed.
GroupByDomainUngrouped(df) ==
    [i \in 1..Len(df) |-> [Domain |-> df[i]["Domain"], Votes |-> df[i]["Votes"]]]

\* df.groupby("Domain", as_index=False)["Votes"].sum()
GroupByDomain(df) ==
    LET keys == SortKeys({df[i]["Domain"] : i \in 1..Len(df)})
    IN  [k \in 1..Len(keys) |-> [Domain |-> keys[k], Votes |-> Num(SumWhere(df, keys[k], "Votes"))]]

\* --------------------------------------------------------------- engagement
\* Variant of EngagementRatio: zero Votes are not replaced by a missing value.
EngagementRatioNoReplace(row) == <<Val(row["Comments"]), Val(row["Votes"])>>

\* df["Comments"] / df["Votes"].replace({0: pd.NA}): the ratio <<Comments, Votes>>,
\* missing when Votes is 0.
EngagementRatio(row) ==
    IF Val(row["Votes"]) = 0 THEN NaN ELSE <<Val(row["Comments"]), Val(row["Votes"])>>

RECURSIVE DropNaRatio(_)
DropNaRatio(rows) ==
    IF rows = <<>> THEN <<>>
    ELSE IF IsNa(Head(rows).ratio) THEN DropNaRatio(Tail(rows))
         ELSE <<Head(rows)>> \o DropNaRatio(Tail(rows))

\* df.assign(EngagementRatio=...).dropna(subset=["EngagementRatio"]), each row with
\* its position in df.
Engagement(df) ==
    DropNaRatio([i \in 1..Len(df) |-> [idx |-> i, ratio |-> EngagementRatio(df[i])]])

\* The finite bin edges 0, 0.5, 1.0 as fractions; the fourth edge is +infinity.
BinEdges == << <<0, 1>>, <<1, 2>>, <<1, 1>> >>

\* a/b < c/d and a/b = c/d for fractions with nonzero denominators.
FracLess(x, y) ==
    IF (x[2] > 0) = (y[2] > 0) THEN x[1] * y[2] < y[1] * x[2] ELSE x[1] * y[2] > y[1] * x[2]
FracEq(x, y) == x[1] * y[2] = y[1] * x[2]

\* Variant of CutBin: bins closed on the left (right=False).
CutBinLeftClosed(r) ==
    LET notAbove == Cardinality({j \in 1..Len(BinEdges) : ~FracLess(r, BinEdges[j])})
    IN  IF notAbove = 0 THEN NaN ELSE BucketLabels[notAbove]

\* pd.cut(ratio, bins=[0, 0.5, 1.0, inf], labels=..., include_lowest=True) on one value:
\* right=True by default, so the position is the number of edges strictly below the
\* value; the lowest edge itself goes to the first bin; a value below every edge is NaN.
CutBin(r) ==
    LET below == Cardinality({j \in 1..Len(BinEdges) : FracLess(BinEdges[j], r)})
        id    == IF FracEq(r, BinEdges[1]) THEN 1 ELSE below
    IN  IF id = 0 \/ id = Len(BinEdges) + 1 THEN NaN ELSE BucketLabels[id]

EngagementBins(engagement) ==
    [k \in 1..Len(engagement) |->
        [idx |-> engagement[k].idx, ratio |-> engagement[k].ratio, bin |-> CutBin(engagement[k].ratio)]]

\* engagement_bins.value_counts().sort_index(): one count per category, in category order.
BucketCounts(bins) ==
    [j \in 1..Len(BucketLabels) |-> Cardinality({k \in 1..Len(bins) : bins[k].bin = BucketLabels[j]})]

\* ------------------------------------------------------------------- inputs
\* Title and URL of the i-th story of a generated file.
Stories ==
    << [Title |-> <<"A">>, URL |-> <<"http:", "//", "x.com">>],
       [Title |-> <<"B">>, URL |-> <<"http:", "//", "y.com", "/p">>],
       [Title |-> <<"C">>, URL |-> <<"https:", "//", "x.com", "?q">>],
       [Title |-> <<"D">>, URL |-> <<"x.com", "/p">>],
       [Title |-> <<"E">>, URL |-> <<>>],
       [Title |-> <<"Lorem20", "Lorem20", "Lorem20">>, URL |-> <<"//", "a.com">>],
       [Title |-> <<"G">>, URL |-> <<"http:", "//", "b.com", "#f">>] >>

\* Text of a Votes or Comments cell of the file: numbers, text, and the empty cell.
NumCells == { <<"0">>, <<"1">>, <<"2">>, <<"-", "1">> }
BadCells == { <<"a">>, <<>> }

\* The (Votes, Comments) cells of a row: numbers giving a zero Votes, the ratios 0,
\* 0.5, 1 and 2 and the negative values, and rows with one or both cells not numeric.
CellPairs ==
    { << <<"0">>, <<"0">> >>, << <<"0">>, <<"1">> >>, << <<"1">>, <<"0">> >>,
      << <<"2">>, <<"1">> >>, << <<"1">>, <<"1">> >>, << <<"2">>, <<"2">> >>,
      << <<"1">>, <<"2">> >>, << <<"-", "1">>, <<"1">> >>, << <<"1">>, <<"-", "1">> >>,
      << <<"-", "1">>, <<"-", "1">> >>,
      << <<"a">>, <<"1">> >>, << <<"1">>, <<>> >>, << <<>>, <<"a">> >> }

Urls == { <<"http:", "//", "x.com">>, <<"http:", "//", "y.com", "/p">>, <<"x.com", "/p">> }

Values == {0 - 1} \cup (0..MaxVal)

CsvRow(i, votes, comments) ==
    [Title |-> Stories[i].Title, URL |-> Stories[i].URL, Votes |-> votes, Comments |-> comments]

CsvFiles ==
    UNION {{[i \in 1..n |-> CsvRow(i, f[i][1], f[i][2])] : f \in [1..n -> CellPairs]}
           : n \in 0..MaxRows}

Story(title, url, votes, comments) ==
    [Title |-> title, URL |-> url, Votes |-> Num(votes), Comments |-> Num(comments)]

\* The rows of the end-to-end example: (A, x.com, 100, 50), (B, y.com, 50, 10), (C, x.com, 10, 100).
ExampleTable ==
    << Story(<<"A">>, <<"http:", "//", "x.com">>, 100, 50),
       Story(<<"B">>, <<"http:", "//", "y.com">>, 50, 10),
       Story(<<"C">>, <<"http:", "//", "x.com">>, 10, 100) >>

\* Seven stories on seven domains: more rows than either top_n.
WideTable ==
    << Story(<<"A">>, <<"http:", "//", "a.com">>, 8, 0),
       Story(<<"B">>, <<"http:", "//", "b.com">>, 7, 0),
       Story(<<"C">>, <<"http:", "//", "c.com">>, 6, 1),
       Story(<<"D">>, <<"http:", "//", "d.com">>, 5, 2),
       Story(<<"E">>, <<"http:", "//", "e.com">>, 3, 3),
       Story(<<"Lorem20", "Lorem20", "Lorem20">>, <<"http:", "//", "f.com">>, 2, 4),
       Story(<<"G">>, <<"http:", "//", "g.com">>, 2, 5) >>

\* Tables handed straight to plot_visualizations.
PlotTables ==
    UNION {{[i \in 1..n |-> Story(Stories[i].Title, f[i][1], f[i][2], i)]
            : f \in [1..n -> Urls \X (0..MaxVal)]} : n \in 0..MaxRows}
    \cup {ExampleTable, WideTable}

\* Tables handed straight to _aggregate_top_share.
AggTables ==
    UNION {{[i \in 1..n |-> [TitleShort |-> Stories[i].Title, Votes |-> Num(f[i])]]
            : f \in [1..n -> Values]} : n \in 0..(MaxRows + 1)}
    \cup {ShortTitles(ExampleTable, TitleWidth)}

NoArgs == [top_n |-> 0]

\* -------------------------------------------------------------------- state
VARIABLES
    entry,       \* the function the run started in
    pc,          \* position of the run
    fileExists,  \* data_path.exists()
    csv,         \* rows of hackernews.csv as text
    df,          \* the table: main's df, or the argument of a direct call
    args,        \* arguments of a direct call of _aggregate_top_share
    frame,       \* plot_visualizations' own copy of df with its derived columns
    calls,       \* functions main has called, in order
    aggCalls,    \* calls of _aggregate_top_share: arguments and result
    pies,        \* calls of _plot_pie
    axRatio,     \* what was drawn on ax_ratio: "blank", "text_off" or "pie"
    bins,        \* engagement_bins: the bucket of every row of engagement
    err          \* the exception the run ended with, or "none"

vars == <<entry, pc, fileExists, csv, df, args, frame, calls, aggCalls, pies, axRatio, bins, err>>

InitCommon ==
    /\ frame = <<>> /\ calls = <<>> /\ aggCalls = <<>> /\ pies = <<>>
    /\ axRatio = "blank" /\ bins = <<>> /\ err = "none"

InitMain ==
    /\ entry = "main" /\ pc = "main"
    /\ fileExists \in BOOLEAN
    /\ csv \in (IF fileExists THEN CsvFiles ELSE {<<>>})
    /\ df = <<>> /\ args = NoArgs

InitPlot ==
    /\ entry = "plot_visualizations" /\ pc = "pie_votes"
    /\ fileExists = FALSE /\ csv = <<>>
    /\ df \in PlotTables /\ args = NoArgs

InitAggregate ==
    /\ entry = "_aggregate_top_share" /\ pc = "aggregate"
    /\ fileExists = FALSE /\ csv = <<>>
    /\ df \in AggTables
    /\ args \in [top_n : 0..MaxTopN]

Init == InitCommon /\ (InitMain \/ InitPlot \/ InitAggregate)

\* ------------------------------------------------------------------ actions
PlotPie(ax, labels, sizes, palette, title) ==
    [ax |-> ax, labels |-> labels, sizes |-> sizes, palette |-> palette, title |-> title]

\* main: the existence check.
MainCheckExists ==
    /\ pc = "main"
    /\ calls' = Append(calls, "exists")
    /\ IF ~fileExists
       THEN pc' = "raised" /\ err' = "FileNotFoundError"
       ELSE pc' = "load" /\ err' = err
    /\ UNCHANGED <<entry, fileExists, csv, df, args, frame, aggCalls, pies, axRatio, bins>>

\* main: df = load_hackernews(data_path).
MainLoad ==
    /\ pc = "load"
    /\ calls' = Append(calls, "load_hackernews")
    /\ df' = LoadHackernews(csv)
    /\ pc' = "check_empty"
    /\ UNCHANGED <<entry, fileExists, csv, args, frame, aggCalls, pies, axRatio, bins, err>>

\* Variant of MainCheckEmpty: plot_visualizations is called without the empty check.
MainCheckEmptySkipped ==
    /\ pc = "check_empty"
    /\ pc' = "pie_votes" /\ err' = err /\ calls' = Append(calls, "plot_visualizations")
    /\ UNCHANGED <<entry, fileExists, csv, df, args, frame, aggCalls, pies, axRatio, bins>>

\* main: the empty check and the call of plot_visualizations.
MainCheckEmpty ==
    /\ pc = "check_empty"
    /\ IF df = <<>>
       THEN pc' = "raised" /\ err' = "ValueError" /\ calls' = calls
       ELSE pc' = "pie_votes" /\ err' = err /\ calls' = Append(calls, "plot_visualizations")
    /\ UNCHANGED <<entry, fileExists, csv, df, args, frame, aggCalls, pies, axRatio, bins>>

\* plot_visualizations: the copy with TitleShort, and pie 1.
PlotVotes ==
    /\ pc = "pie_votes"
    /\ frame' = ShortTitles(df, TitleWidth)
    /\ \E ordered \in SortValues(frame', "Votes") :
         LET c == AggCall(frame', "Votes", "TitleShort", StoryTopN, OtherStories, ordered)
         IN  /\ aggCalls' = Append(aggCalls, c)
             /\ pies' = Append(pies, PlotPie("ax_votes", c.labels, c.sizes, "crest",
                                             "Vote Share (Top Stories)"))
    /\ pc' = "pie_comments"
    /\ UNCHANGED <<entry, fileExists, csv, df, args, calls, axRatio, bins, err>>

\* plot_visualizations: pie 2.
PlotComments ==
    /\ pc = "pie_comments"
    /\ \E ordered \in SortValues(frame, "Comments") :
         LET c == AggCall(frame, "Comments", "TitleShort", StoryTopN, OtherStories, ordered)
         IN  /\ aggCalls' = Append(aggCalls, c)
             /\ pies' = Append(pies, PlotPie("ax_comments", c.labels, c.sizes, "rocket",
                                             "Comment Share (Top Stories)"))
    /\ pc' = "pie_domains"
    /\ UNCHANGED <<entry, fileExists, csv, df, args, frame, calls, axRatio, bins, err>>

\* plot_visualizations: the Domain column, the group sums, and pie 3.
PlotDomains ==
    /\ pc = "pie_domains"
    /\ frame' = WithDomain(frame)
    /\ LET domain_votes == GroupByDomain(frame')
       IN  \E ordered \in SortValues(domain_votes, "Votes") :
             LET c == AggCall(domain_votes, "Votes", "Domain", DomainTopN, OtherDomains, ordered)
             IN  /\ aggCalls' = Append(aggCalls, c)
                 /\ pies' = Append(pies, PlotPie("ax_domains", c.labels, c.sizes, "mako",
                                                 "Vote Share by Domain"))
    /\ pc' = "pie_ratio"
    /\ UNCHANGED <<entry, fileExists, csv, df, args, calls, axRatio, bins, err>>

\* plot_visualizations: pie 4 or its placeholder.
PlotEngagement ==
    /\ pc = "pie_ratio"
    /\ LET engagement == Engagement(frame)
       IN  IF engagement = <<>>
           THEN /\ axRatio' = "text_off"
                /\ UNCHANGED <<bins, pies>>
           ELSE /\ bins' = EngagementBins(engagement)
                /\ pies' = Append(pies, PlotPie("ax_ratio", BucketLabels, BucketCounts(bins'),
                                                "Spectral", "Engagement Levels"))
                /\ axRatio' = "pie"
    /\ pc' = "show"
    /\ UNCHANGED <<entry, fileExists, csv, df, args, frame, calls, aggCalls, err>>

\* plot_visualizations: the title, the layout and plt.show(); then the caller returns.
PlotShow ==
    /\ pc = "show"
    /\ pc' = "done"
    /\ UNCHANGED <<entry, fileExists, csv, df, args, frame, calls, aggCalls, pies, axRatio, bins, err>>

\* A direct call _aggregate_top_share(df, "Votes", "TitleShort", top_n, "Other stories").
AggregateDirect ==
    /\ pc = "aggregate"
    /\ \E ordered \in SortValues(df, "Votes") :
         aggCalls' = Append(aggCalls,
             AggCall(df, "Votes", "TitleShort", args.top_n, OtherStories, ordered))
    /\ pc' = "done"
    /\ UNCHANGED <<entry, fileExists, csv, df, args, frame, calls, pies, axRatio, bins, err>>

Next ==
    \/ MainCheckExists
    \/ MainLoad
    \/ MainCheckEmpty
    \/ PlotVotes
    \/ PlotComments
    \/ PlotDomains
    \/ PlotEngagement
    \/ PlotShow
    \/ AggregateDirect

Spec == Init /\ [][Next]_vars

\* =================================================================== claims
\* The numbers of a sequence, largest first.
RECURSIVE Descending(_)
Descending(s) ==
    IF s = <<>> THEN <<>>
    ELSE LET i == CHOOSE k \in 1..Len(s) : \A j \in 1..Len(s) : s[k] >= s[j]
         IN  <<s[i]>> \o Descending(SubSeq(s, 1, i - 1) \o SubSeq(s, i + 1, Len(s)))

CallValues(c) == [i \in 1..Len(c.df) |-> c.df[i][c.value_col][1]]
CallTotal(c) == SumSeq(CallValues(c))
CallTopCount(c) == Min(c.top_n, Len(c.df))
\* Total of the value column minus the sum of its top_n largest values.
CallRemainder(c) == CallTotal(c) - SumSeq(SubSeq(Descending(CallValues(c)), 1, CallTopCount(c)))
NonNegative(c) == \A i \in 1..Len(c.df) : CallValues(c)[i] >= 0
AllAggCalls == {aggCalls[k] : k \in 1..Len(aggCalls)}

\* C1 as stated: for every table and value column, the sizes returned by
\* _aggregate_top_share sum to the sum of the column over all rows.
C1_SizesSumToTotal_AsStated ==
    \A c \in AllAggCalls : SumSeq(c.sizes) = CallTotal(c)

\* C1 amended: for every table whose value column holds no negative number, the sizes
\* returned by _aggregate_top_share sum to the sum of the column over all rows, whether
\* or not the 'Other' slice is appended.
C1_SizesSumToTotal ==
    \A c \in AllAggCalls : NonNegative(c) => SumSeq(c.sizes) = CallTotal(c)

\* A call on non-negative values that appended the 'Other' slice to at least one top row.
C1_Witness ==
    \E c \in AllAggCalls :
        NonNegative(c) /\ CallTopCount(c) >= 1 /\ Len(c.sizes) = CallTopCount(c) + 1

\* C4: labels and sizes have equal length, min(top_n, row_count) when the remainder is
\* not greater than 0 and min(top_n, row_count) + 1 when it is.
C4_ResultLength ==
    \A c \in AllAggCalls :
        /\ Len(c.labels) = Len(c.sizes)
        /\ Len(c.sizes) = CallTopCount(c) + (IF CallRemainder(c) > 0 THEN 1 ELSE 0)

\* A call with fewer top rows than rows whose remainder is not positive, so that no
\* slice is appended although rows were left out.
C4_Witness ==
    \E c \in AllAggCalls :
        c.top_n >= 1 /\ c.top_n < Len(c.df) /\ CallRemainder(c) <= 0 /\ Len(c.sizes) = c.top_n

\* C5: the non-synthetic sizes are in non-increasing order and are the top_n largest
\* values of the column (each with the label of a row holding that value); the 'Other'
\* slice, when present, is the last element of labels and of sizes.
C5_TopDescendingOtherLast ==
    \A c \in AllAggCalls :
        LET k == CallTopCount(c)
        IN  /\ Len(c.sizes) >= k /\ Len(c.labels) >= k
            /\ \A i \in 1..k : \A j \in 1..k : i < j => c.sizes[i] >= c.sizes[j]
            /\ SubSeq(c.sizes, 1, k) = SubSeq(Descending(CallValues(c)), 1, k)
            /\ \A i \in 1..k : \E r \in 1..Len(c.df) :
                   c.df[r][c.label_col] = c.labels[i] /\ CallValues(c)[r] = c.sizes[i]
            /\ Len(c.sizes) > k =>
                   /\ Len(c.sizes) = k + 1 /\ Len(c.labels) = k + 1
                   /\ c.labels[k + 1] = c.other_label
                   /\ c.sizes[k + 1] = CallRemainder(c)
                   /\ \A i \in 1..k : c.labels[i] # c.other_label

\* A call with two or more top rows of different size whose 'Other' slice is larger
\* than the slice before it.
C5_Witness ==
    \E c \in AllAggCalls :
        /\ CallTopCount(c) >= 2 /\ Len(c.sizes) = CallTopCount(c) + 1
        /\ c.sizes[1] > c.sizes[2]
        /\ c.sizes[Len(c.sizes)] > c.sizes[CallTopCount(c)]

\* ------------------------------------------------------- engagement claims
InRenderer == entry \in {"main", "plot_visualizations"}
AfterEngagement == InRenderer /\ pc \in {"show", "done"}
RatioPies == {k \in 1..Len(pies) : pies[k].ax = "ax_ratio"}
BinsOfRow(i) == {k \in 1..Len(bins) : bins[k].idx = i}
Votes(i) == frame[i]["Votes"][1]
Comments(i) == frame[i]["Comments"][1]
Quiet == BucketLabels[1]
Balanced == BucketLabels[2]
Buzzing == BucketLabels[3]

\* The sizes of the engagement pie are the numbers of rows counted in each bucket.
SizesCountBins ==
    \A p \in RatioPies : \A j \in 1..3 :
        pies[p].sizes[j] = Cardinality({k \in 1..Len(bins) : bins[k].bin = BucketLabels[j]})

C7_PlaceholderOrPie ==
    /\ InRenderer /\ pc \notin {"show", "done"} => axRatio = "blank" /\ RatioPies = {}
    /\ AfterEngagement =>
        /\ axRatio = "text_off" <=> \A i \in 1..Len(frame) : Votes(i) = 0
        /\ axRatio = "text_off" => RatioPies = {}
        /\ axRatio # "text_off" =>
            /\ axRatio = "pie"
            /\ Cardinality(RatioPies) = 1
            /\ \A p \in RatioPies : pies[p].labels = BucketLabels /\ Len(pies[p].sizes) = 3
            /\ SizesCountBins
            /\ \A k \in 1..Len(bins) : Votes(bins[k].idx) # 0
            /\ \A i \in 1..Len(frame) : Votes(i) # 0 => Cardinality(BinsOfRow(i)) = 1

\* The placeholder drawn for a table that has rows, all of them with Votes = 0.
C7_Witness == AfterEngagement /\ axRatio = "text_off" /\ Len(frame) >= 1

\* ---------------------------------------------------------- renderer claims
SharePies == {k \in 1..Len(pies) : pies[k].ax \in {"ax_votes", "ax_comments", "ax_domains"}}

\* C6: on an empty table _aggregate_top_share returns two empty sequences, and
\* plot_visualizations then draws no pie for the vote-share, comment-share and
\* domain-share charts.
C6_EmptyTableNoPie ==
    /\ \A c \in AllAggCalls : c.df = <<>> => c.labels = <<>> /\ c.sizes = <<>>
    /\ InRenderer /\ df = <<>> => SharePies = {}

\* C10: in a run of main that reaches rendering, with non-negative Votes and Comments
\* in every loaded row, every pie passed to _plot_pie has at least one slice and a
\* strictly positive sum of sizes.
C10_PiesHavePositiveTotal ==
    (/\ entry = "main"
     /\ \A i \in 1..Len(df) : df[i]["Votes"][1] >= 0 /\ df[i]["Comments"][1] >= 0)
    => \A k \in 1..Len(pies) : Len(pies[k].sizes) >= 1 /\ SumSeq(pies[k].sizes) > 0

\* ------------------------------------------------------- loader and main claims
\* The number a cell of the generated files holds when it holds one.
CellNumber(cell) ==
    CASE cell = <<"0">> -> 0 [] cell = <<"1">> -> 1 [] cell = <<"2">> -> 2 [] OTHER -> 0 - 1
ValidRow(r) == r["Votes"] \in NumCells /\ r["Comments"] \in NumCells
ValidIdx == {i \in 1..Len(csv) : ValidRow(csv[i])}
Terminal == pc \in {"raised", "done"}
Occurrences(name) == Cardinality({k \in 1..Len(calls) : calls[k] = name})

\* main can take its next step, or the run is inside plot_visualizations.
StepEnabled ==
    \/ pc = "main" /\ ENABLED MainCheckExists
    \/ pc = "load" /\ ENABLED MainLoad
    \/ pc = "check_empty" /\ ENABLED MainCheckEmpty
    \/ pc \in {"pie_votes", "pie_comments", "pie_domains", "pie_ratio", "show"}
             /\ Occurrences("plot_visualizations") = 1

\* C3: main renders the dashboard if and only if the file exists and loading yields a
\* valid row; with the file absent it fails with the dataset-not-found error before the
\* loader is invoked, with no valid row it fails with the empty-dataset error before
\* plot_visualizations is invoked, and in neither case is a chart drawn or a step retried.
C3_MainRendersIffData ==
    entry = "main" =>
        /\ Terminal \/ StepEnabled
        /\ Terminal => (pc = "done" <=> fileExists /\ ValidIdx # {})
        /\ pc = "done" => err = "none" /\ Occurrences("plot_visualizations") = 1
                          /\ Cardinality(SharePies) = 3
        /\ pc = "raised" => pies = <<>> /\ axRatio = "blank" /\ aggCalls = <<>>
                            /\ Occurrences("plot_visualizations") = 0
        /\ pc = "raised" /\ ~fileExists =>
               err = "FileNotFoundError" /\ Occurrences("load_hackernews") = 0
        /\ pc = "raised" /\ fileExists =>
               err = "ValueError" /\ ValidIdx = {} /\ Occurrences("load_hackernews") = 1
        /\ pies # <<>> => fileExists /\ ValidIdx # {}
        /\ \A k \in 1..Len(calls) : Occurrences(calls[k]) = 1

\* main ended with the empty-dataset error on a file that has rows.
C3_Witness ==
    entry = "main" /\ pc = "raised" /\ err = "ValueError" /\ Len(csv) >= 1

\* C9: load_hackernews returns exactly the rows whose Votes and Comments are both
\* numbers, in input order and otherwise unchanged; a file in which every Votes cell is
\* non-numeric yields an empty table and main raises the empty-dataset error.
C9_LoaderKeepsValidRows ==
    entry = "main" /\ Occurrences("load_hackernews") = 1 =>
        /\ Len(df) = Cardinality(ValidIdx)
        /\ \A i \in ValidIdx :
            LET j == Cardinality({h \in ValidIdx : h <= i})
            IN  /\ df[j]["Title"] = csv[i]["Title"]
                /\ df[j]["URL"] = csv[i]["URL"]
                /\ df[j]["Votes"] = <<CellNumber(csv[i]["Votes"])>>
                /\ df[j]["Comments"] = <<CellNumber(csv[i]["Comments"])>>
        /\ (\A i \in 1..Len(csv) : csv[i]["Votes"] \notin NumCells) =>
               /\ df = <<>>
               /\ pc # "check_empty" => pc = "raised" /\ err = "ValueError"

\* A loaded file of two rows whose first row has a numeric Votes but a non-numeric
\* Comments and whose second row is valid: only the second row is kept.
C9_Witness ==
    /\ entry = "main" /\ Occurrences("load_hackernews") = 1
    /\ Len(csv) = 2 /\ Len(df) = 1
    /\ csv[1]["Votes"] \in NumCells /\ csv[1]["Comments"] \notin NumCells
    /\ ValidRow(csv[2])

\* ------------------------------------------------------------ domain claim
\* The network location of the URLs the model uses, or 'Unknown'.
ExpectedDomain(url) ==
    IF \E i \in 1..Len(url) : url[i] = "//"
    THEN LET i == CHOOSE k \in 1..Len(url) : url[k] = "//" IN <<url[i + 1]>>
    ELSE <<"Unknown">>
DomainCalls == {c \in AllAggCalls : c.label_col = "Domain"}
RECURSIVE SumVotes(_)
SumVotes(S) ==
    IF S = {} THEN 0 ELSE LET i == CHOOSE x \in S : TRUE IN frame[i]["Votes"][1] + SumVotes(S \ {i})

\* C8: the domain aggregation passes to the aggregator exactly one row per distinct
\* domain label (the URL's network location, or 'Unknown') whose value is the sum of the
\* Votes of the rows with that label, with top_n = 6 and other_label 'Other domains'; on
\* the example rows x.com gets 110, and vote-share aggregation with top_n = 2 yields the
\* labels A, B and 'Other stories' with size 10.
C8_DomainGroupsAndExample ==
    /\ InRenderer /\ pc \in {"pie_ratio", "show", "done"} => Cardinality(DomainCalls) = 1
    /\ \A c \in DomainCalls :
        /\ c.top_n = 6 /\ c.other_label = <<"Other domains">> /\ c.value_col = "Votes"
        /\ \A a \in 1..Len(c.df) : \A b \in 1..Len(c.df) :
               a # b => c.df[a]["Domain"] # c.df[b]["Domain"]
        /\ {c.df[a]["Domain"] : a \in 1..Len(c.df)}
               = {ExpectedDomain(df[i]["URL"]) : i \in 1..Len(df)}
        /\ \A a \in 1..Len(c.df) :
               c.df[a]["Votes"] = <<SumVotes({i \in 1..Len(df) :
                                        ExpectedDomain(df[i]["URL"]) = c.df[a]["Domain"]})>>
        /\ df = ExampleTable =>
               \E a \in 1..Len(c.df) : c.df[a] = [Domain |-> <<"x.com">>, Votes |-> <<110>>]
    /\ \A c \in AllAggCalls :
        (/\ entry = "_aggregate_top_share" /\ c.top_n = 2
         /\ Len(df) = 3 /\ \A i \in 1..3 : df[i]["Votes"] = ExampleTable[i]["Votes"]) =>
            /\ c.labels = << <<"A">>, <<"B">>, <<"Other stories">> >>
            /\ c.sizes = <<100, 50, 10>>

\* The domain pie of the example rows has been drawn: two stories share x.com.
C8_Witness ==
    /\ entry = "plot_visualizations" /\ df = ExampleTable /\ pc = "done"
    /\ \E c \in DomainCalls : Len(c.df) = 2

====
